---- MODULE Spec2Model ----
(***************************************************************************)
(* Air-quality ingestion (1_data_ingest.py) and prompt generation          *)
(* (2_generate_prompts.py).                                                *)
(*                                                                         *)
(* A DataFrame is [columns |-> sequence of column names,                   *)
(*                 rows    |-> sequence of rows, a row a sequence of cells]*)
(* and every cell of a Stage 1 frame is a string.  Dates are day ordinals: *)
(* ordinal 1 is 2023-11-01, 30 is 2023-11-30, 31 is 2023-12-01, 61 is      *)
(* 2023-12-31 and 62 is 2024-01-01.                                        *)
(***************************************************************************)
EXTENDS Integers, Sequences, FiniteSets, TLC

VARIABLES
    \* ---- 1_data_ingest.py: main ----
    city_config,        \* the configured cities, in file order
    END_DATE,           \* os.getenv("END_DATE"), as a day ordinal
    bucket,             \* the objects of the public archive bucket
    s1_pc,              \* where main is
    city_idx,           \* index in city_config of the city of this iteration
    location_metadata,  \* main's location_metadata
    city_data,          \* main's city_data
    transformed_df,     \* main's transformed_df
    puts,               \* the put_object calls made on the target bucket
    stdout,             \* the lines printed by main
    history,            \* what main did, in order: [city, phase, n] with phase
                        \* "fetch" (n locations returned, -1 on an HTTP error),
                        \* "download" (called with n identifiers), "rows" (n rows
                        \* returned), "enrich" (n rows left) and "write" (n lines put)
    \* ---- 1_data_ingest.py: download_data_to_dataframe ----
    dl_pc,              \* "idle", "loop" or "returned"
    location_ids, start_date, end_date,
    loc_i,              \* index in location_ids of the location of this iteration
    current_date,       \* generate_date_range's current_date
    consolidated_df, failed_locations,
    list_calls,         \* the list_objects_v2 requests issued, in order
    \* ---- 1_data_ingest.py: enrichment applied to a dataset, repeatedly ----
    enr_input,          \* the dataset enrichment was first given
    enr_metadata,       \* the metadata mapping
    enr_prev,           \* the dataset before the latest application
    enr_df,             \* the dataset now
    enr_passes,         \* how many times enrichment has been applied
    \* ---- 2_generate_prompts.py: a call of create_daily_forecast_prompts_v4 ----
    gen_pc,             \* "idle", "ready" (about to be called) or "returned"
    gen_df,             \* df: rows [location_name, datetime, value]
    gen_location,       \* location_name
    history_length_days, forecast_days, prompt_type, max_prompts_per_city,
    gen_raised,         \* the call raised
    output_list,        \* the first component of what the call returned
    \* ---- 2_generate_prompts.py: main ----
    config,             \* cities_config.json: [state, cities], state "ok", "missing"
                        \* or "malformed"
    target_objects,     \* per city, its CSV artifact in the target bucket:
                        \* [status, df], status "ok", "absent" or "unreadable"
    s2_pc,              \* where main is
    locations_list,     \* main's locations_list
    s2_i,               \* index in locations_list of the location of this iteration
    all_zero_shot_prompts, all_ft_prompts,
    json_files,         \* the save_to_json calls made: [filename, data]
    s2_stdout,          \* the lines printed
    s2_loads            \* the keys load_data_from_s3 was asked for

s1Vars == <<city_config, END_DATE, s1_pc, city_idx, location_metadata, city_data,
            transformed_df, puts, stdout, history>>
dlVars == <<dl_pc, location_ids, start_date, end_date, loc_i, current_date,
            consolidated_df, failed_locations, list_calls>>
enrVars == <<enr_input, enr_metadata, enr_prev, enr_df, enr_passes>>
genVars == <<gen_pc, gen_df, gen_location, history_length_days, forecast_days,
             prompt_type, max_prompts_per_city, gen_raised, output_list>>
s2Vars == <<config, target_objects, s2_pc, locations_list, s2_i, all_zero_shot_prompts,
            all_ft_prompts, json_files, s2_stdout, s2_loads>>
vars == <<s1Vars, dlVars, bucket, enrVars, genVars, s2Vars>>

\* What the actions of 1_data_ingest.py's main and downloader leave alone.
notStage1 == <<enrVars, genVars, s2Vars>>

\* ------------------------------------------------------------------ bounds
\* Cities in the configuration file.
MaxCities == 3
\* A direct call of download_data_to_dataframe draws start and end from
\* 2023-12-30 .. 2023-12-30 + MaxSpan days.
MaxSpan == 3
\* Rows of a dataset given to enrichment.
MaxEnrichRows == 3
\* Applications of enrichment to one dataset.
MaxPasses == 2
\* Calendar days a dataset given to the prompt generator spans.
MaxGenDays == 4
\* history_length_days and forecast_days of a direct call are 1..MaxHistory
\* and 1..MaxForecast.
MaxHistory == 2
MaxForecast == 2
\* Datasets for the driver's own window (10 and 2) span ExampleDays days, of
\* which at most MaxGaps have no measurement.
ExampleDays == 13
MaxGaps == 2

\* --------------------------------------------------------- program constants
\* NUMBER_OF_DAYS = 30 (the environment's value is overwritten)
NUMBER_OF_DAYS == 30
\* history_length_days_forecast = 10, forecast_window_days_forecast = 2,
\* max_prompts = 3
history_length_days_forecast == 10
forecast_window_days_forecast == 2
max_prompts == 3

\* ------------------------------------------------------------------ helpers
RECURSIVE SeqSum(_)
SeqSum(s) == IF s = <<>> THEN 0 ELSE Head(s) + SeqSum(Tail(s))

Range(s) == {s[i] : i \in DOMAIN s}

\* The first index of x in s, 0 when absent.
IndexOf(s, x) ==
    IF x \in Range(s) THEN CHOOSE i \in DOMAIN s : s[i] = x /\ \A j \in 1..(i - 1) : s[j] # x
    ELSE 0

Count(s, x) == Cardinality({i \in DOMAIN s : s[i] = x})

\* --------------------------------------------------------------- calendar
\* date.strftime("%Y"), ("%m"), ("%d") over 2023-11-01 .. 2024-01-31
Year(d) == IF d <= 61 THEN 2023 ELSE 2024
Month(d) == IF d <= 30 THEN 11 ELSE IF d <= 61 THEN 12 ELSE 1
Day(d) == IF d <= 30 THEN d ELSE IF d <= 61 THEN d - 30 ELSE d - 61
\* f"{year}{month}{day}": the eight digits YYYYMMDD
Stamp(d) == Year(d) * 10000 + Month(d) * 100 + Day(d)

\* ----------------------------------------------------------------- frames
NaN == "NaN"
NaT == "NaT"
IsNull(c) == c \in {NaN, NaT}

\* pd.DataFrame()
EmptyFrame == [columns |-> <<>>, rows |-> <<>>]

\* DataFrame.empty: any axis of length 0
IsEmpty(df) == Len(df.columns) = 0 \/ Len(df.rows) = 0

\* The columns of b that a lacks, in b's order.
NewColumns(a, b) == SelectSeq(b.columns, LAMBDA c : c \notin Range(a.columns))

\* A row of `from` laid out under `cols`: NaN where `from` has no such column.
Realign(row, from, cols) ==
    [k \in DOMAIN cols |->
        IF cols[k] \in Range(from.columns) THEN row[IndexOf(from.columns, cols[k])] ELSE NaN]

\* pd.concat([a, b], ignore_index=True): the union of the columns, a's first,
\* then the rows of a followed by the rows of b.
Concat(a, b) ==
    LET cols == a.columns \o NewColumns(a, b)
    IN [columns |-> cols,
        rows |-> [k \in DOMAIN a.rows |-> Realign(a.rows[k], a, cols)]
                 \o [k \in DOMAIN b.rows |-> Realign(b.rows[k], b, cols)]]

\* Column assignment that appends a new column even when one of that name exists.
SetColumnAlwaysAppending(df, name, values) ==
    [columns |-> Append(df.columns, name),
     rows |-> [k \in DOMAIN df.rows |-> Append(df.rows[k], values[k])]]

\* df[name] = values: the column is replaced in place when it exists and is
\* appended as the last column when it does not.
SetColumn(df, name, values) ==
    IF name \in Range(df.columns)
    THEN LET c == IndexOf(df.columns, name)
         IN [columns |-> df.columns,
             rows |-> [k \in DOMAIN df.rows |-> [df.rows[k] EXCEPT ![c] = values[k]]]]
    ELSE [columns |-> Append(df.columns, name),
          rows |-> [k \in DOMAIN df.rows |-> Append(df.rows[k], values[k])]]

\* df[name]: the cells of one column
Column(df, name) ==
    LET c == IndexOf(df.columns, name) IN [k \in DOMAIN df.rows |-> df.rows[k][c]]

\* --------------------------------------------------- 1_data_ingest.py: pure
\* dict.get(key, default) on a JSON object
Get(obj, key, default) == IF key \in DOMAIN obj THEN obj[key] ELSE default

\* extract_metadata_fields(metadata)
extract_metadata_fields(metadata) ==
    [location_id |-> Get(metadata, "id", ""),
     location_name |-> Get(metadata, "name", ""),
     country |-> Get(Get(metadata, "country", <<>>), "name", ""),
     provider |-> Get(Get(metadata, "provider", <<>>), "name", "")]

\* The metadata dict is kept as the sequence of its values in insertion order;
\* metadata.get(location_id, {}).get(field, "")
MetaLookup(metadata, location_id, field) ==
    LET hits == SelectSeq(metadata, LAMBDA m : m.location_id = location_id)
    IN IF hits = <<>> THEN "" ELSE Head(hits)[field]

\* list(location_metadata.keys())
MetaKeys(metadata) == [k \in DOMAIN metadata |-> metadata[k].location_id]

\* enrich_data_with_metadata(data_df, metadata)
enrich_data_with_metadata(data_df, metadata) ==
    LET ids == Column(data_df, "location_id")
        named == SetColumn(data_df, "location_name",
                     [k \in DOMAIN ids |-> MetaLookup(metadata, ids[k], "location_name")])
    IN SetColumn(named, "provider",
                 [k \in DOMAIN ids |-> MetaLookup(metadata, ids[k], "provider")])

\* col.lower().replace(" ", "_") on the column names that occur
NormalizedNames ==
    [c \in {"Date", "Location", "Sensor ID", "Value"} |->
        CASE c = "Date" -> "date"
          [] c = "Location" -> "location"
          [] c = "Sensor ID" -> "sensor_id"
          [] c = "Value" -> "value"]
NormalizeName(c) == IF c \in DOMAIN NormalizedNames THEN NormalizedNames[c] ELSE c

\* pd.to_datetime(cell, errors='coerce') on the date strings that occur: a
\* Timestamp for a well-formed date, NaT for anything else (a null included).
ParsedDates ==
    [c \in {"2023-12-30", "2023-12-31"} |->
        CASE c = "2023-12-30" -> "Timestamp(2023-12-30 00:00:00)"
          [] c = "2023-12-31" -> "Timestamp(2023-12-31 00:00:00)"]
to_datetime(c) == IF c \in DOMAIN ParsedDates THEN ParsedDates[c] ELSE NaT

\* DataFrame.drop_duplicates(): a row equal to an earlier row is removed
\* (nulls compare equal), the first occurrence and the order are kept.
RECURSIVE DropDuplicatesFrom(_, _)
DropDuplicatesFrom(rows, seen) ==
    IF rows = <<>> THEN <<>>
    ELSE IF Head(rows) \in seen THEN DropDuplicatesFrom(Tail(rows), seen)
    ELSE <<Head(rows)>> \o DropDuplicatesFrom(Tail(rows), seen \cup {Head(rows)})
drop_duplicates(df) == [df EXCEPT !.rows = DropDuplicatesFrom(df.rows, {})]

\* DataFrame.dropna(): a row holding any null cell is removed
dropna(df) ==
    [df EXCEPT !.rows = SelectSeq(df.rows, LAMBDA r : \A c \in DOMAIN r : ~IsNull(r[c]))]

\* transform_data_for_rag(df)
transform_data_for_rag(df) ==
    LET renamed == [df EXCEPT !.columns = [c \in DOMAIN df.columns |-> NormalizeName(df.columns[c])]]
        located == IF "location" \notin Range(renamed.columns)
                   THEN SetColumn(renamed, "location", [k \in DOMAIN renamed.rows |-> "Unknown"])
                   ELSE renamed
        stamped == IF "date" \in Range(located.columns)
                   THEN LET dates == Column(located, "date")
                        IN SetColumn(located, "timestamp",
                                     [k \in DOMAIN dates |-> to_datetime(dates[k])])
                   ELSE located
    IN dropna(drop_duplicates(stamped))

\* df.to_csv(index=False): the header line and one line per row, a null cell
\* written as the empty field
to_csv(df) ==
    [header |-> df.columns,
     lines |-> [k \in DOMAIN df.rows |->
                  [c \in DOMAIN df.rows[k] |-> IF IsNull(df.rows[k][c]) THEN "" ELSE df.rows[k][c]]]]

\* ------------------------------------------------------- the archive bucket
\* An object of the archive is
\*   records/csv.gz/locationid={locationid}/year={year}/month={month}/location-{locationid}-{stamp}.csv.gz
\* and `kind` names its content.
ArchiveColumns == <<"location_id", "location", "datetime", "value">>

ArchiveObject(locationid, d, kind) ==
    [locationid |-> locationid, year |-> Year(d), month |-> Month(d),
     stamp |-> Stamp(d), kind |-> kind]

\* pd.read_csv(gzip.GzipFile(get_object(Key)['Body'])): the rows of the file
ReadCsvGz(obj) ==
    LET row(v) == <<obj.locationid, "Station", ToString(obj.stamp), v>>
    IN [columns |-> ArchiveColumns,
        rows |-> CASE obj.kind = "data" -> <<row("12")>>
                   [] obj.kind = "nulls" -> <<row(NaN)>>
                   [] obj.kind = "pair" -> <<row("15"), row("12")>>
                   [] OTHER -> <<>>]

\* Every bucket that holds, for each slot <<locationid, day>>, no object or an
\* object of one of the kinds.
BucketsOver(slots, kinds) ==
    {{ArchiveObject(s[1], s[2], k[s]) : s \in {t \in slots : k[t] # "absent"}} :
        k \in [slots -> kinds \cup {"absent"}]}

RECURSIVE SortByStamp(_)
SortByStamp(objs) ==
    IF objs = {} THEN <<>>
    ELSE LET first == CHOOSE o \in objs : \A p \in objs : o.stamp <= p.stamp
         IN <<first>> \o SortByStamp(objs \ {first})

\* prefix = f"records/csv.gz/locationid={location_id}/year={year}/month={month}/"
Prefix(location_id, date) ==
    [locationid |-> location_id, year |-> Year(date), month |-> Month(date)]

\* openaq_client.list_objects_v2(Bucket, Prefix): the objects under the prefix
\* in key order; the response has 'Contents' exactly when there is one.
list_objects_v2(objs, prefix) ==
    SortByStamp({o \in objs : o.locationid = prefix.locationid
                              /\ o.year = prefix.year /\ o.month = prefix.month})

\* key.endswith(f"{year}{month}{day}.csv.gz")
KeyEndsWith(obj, date) == obj.stamp = Stamp(date)

\* The inner loop with pd.concat([daily_df, consolidated_df]): the rows read
\* last come first.
RECURSIVE ConcatMatchingPrepending(_, _, _)
ConcatMatchingPrepending(df, contents, date) ==
    IF contents = <<>> THEN df
    ELSE ConcatMatchingPrepending(
            IF KeyEndsWith(Head(contents), date) THEN Concat(ReadCsvGz(Head(contents)), df) ELSE df,
            Tail(contents), date)

\* The inner loop over response['Contents']: every matching object is read and
\* concatenated, in listing order.
RECURSIVE ConcatMatching(_, _, _)
ConcatMatching(df, contents, date) ==
    IF contents = <<>> THEN df
    ELSE ConcatMatching(
            IF KeyEndsWith(Head(contents), date) THEN Concat(df, ReadCsvGz(Head(contents))) ELSE df,
            Tail(contents), date)

\* -------------------------------------------------------- main's bookkeeping
\* The city of the current iteration of main's loop.
City == city_config[city_idx]

\* An entry of history.
Event(city, phase, n) == [city |-> city, phase |-> phase, n |-> n]

\* print(msg) about a city
Printed(out, msg, city) == Append(out, [msg |-> msg, city |-> city])

\* ----------------------------------- 1_data_ingest.py: download_data_to_dataframe
\* The two for loops have a (location, day) pair left to visit.
PairLeft == loc_i <= Len(location_ids) /\ current_date <= end_date

\* The locals of a call download_data_to_dataframe(ids, start, end) as the
\* loops are entered.
CallDownload(ids, start, end) ==
    /\ dl_pc' = "loop"
    /\ location_ids' = ids
    /\ start_date' = start
    /\ end_date' = end
    /\ loc_i' = 1
    /\ current_date' = start
    /\ consolidated_df' = EmptyFrame
    /\ failed_locations' = <<>>
    /\ list_calls' = <<>>

\* One iteration of the inner loop: list the month of (location_id, date),
\* read and concatenate every object whose key ends with the day's stamp, or
\* note the location when the response has no 'Contents'; then
\* generate_date_range and the outer loop move on.
DownloadVisit ==
    /\ dl_pc = "loop"
    /\ PairLeft
    /\ LET location_id == location_ids[loc_i]
           date == current_date
           prefix == Prefix(location_id, date)
           contents == list_objects_v2(bucket, prefix)
       IN /\ list_calls' = Append(list_calls, prefix)
          /\ IF contents # <<>>
             THEN /\ consolidated_df' = ConcatMatching(consolidated_df, contents, date)
                  /\ UNCHANGED failed_locations
             ELSE /\ failed_locations' = Append(failed_locations, location_id)
                  /\ UNCHANGED consolidated_df
          /\ IF date + 1 <= end_date
             THEN /\ current_date' = date + 1
                  /\ UNCHANGED loc_i
             ELSE /\ current_date' = start_date
                  /\ loc_i' = loc_i + 1
    /\ UNCHANGED <<dl_pc, location_ids, start_date, end_date>>
    /\ UNCHANGED <<s1Vars, bucket>>
    /\ UNCHANGED notStage1

\* The loops are over: the summary lines are printed and consolidated_df is
\* returned (to main, as city_data).
DownloadReturn ==
    /\ dl_pc = "loop"
    /\ ~PairLeft
    /\ dl_pc' = "returned"
    /\ city_data' = consolidated_df
    /\ stdout' = stdout
                 \o <<[msg |-> IF ~IsEmpty(consolidated_df)
                               THEN "Data successfully consolidated."
                               ELSE "No data was fetched for any location IDs.",
                       city |-> ""]>>
                 \o (IF failed_locations # <<>>
                     THEN <<[msg |-> "Locations with no data or errors", city |-> ""]>>
                     ELSE <<>>)
    /\ UNCHANGED <<location_ids, start_date, end_date, loc_i, current_date,
                   consolidated_df, failed_locations, list_calls>>
    /\ history' = IF s1_pc = "download"
                   THEN Append(history, Event(City, "rows", Len(consolidated_df.rows)))
                   ELSE history
    /\ UNCHANGED <<city_config, END_DATE, s1_pc, city_idx, location_metadata,
                   transformed_df, puts, bucket>>
    /\ UNCHANGED notStage1

\* ------------------------------------------------- 1_data_ingest.py: main
\* The location objects the locations API may return ("2" has no provider).
LocationObject(id) ==
    IF id = "1"
    THEN [id |-> "1", name |-> "Anand Vihar", country |-> [name |-> "India"],
          provider |-> [name |-> "CPCB"]]
    ELSE [id |-> id, name |-> "ITO", country |-> [name |-> "India"]]

\* requests.get(url, ...): a status and, under 200, the JSON's "results"
Responses ==
    {[status |-> 500, results |-> <<>>]}
    \cup {[status |-> 200, results |-> [k \in DOMAIN ids |-> LocationObject(ids[k])]] :
            ids \in {<<>>, <<"1">>, <<"2">>, <<"1", "2">>}}

\* get_location_metadata(city, bbox, api_key) on a 200 response
get_location_metadata(response) ==
    [k \in DOMAIN response.results |-> extract_metadata_fields(response.results[k])]

\* FetchMetadata with the HTTP error caught per city: the city is given up and
\* the loop goes on.
FetchMetadataCaught ==
    /\ s1_pc = "fetch"
    /\ city_idx <= Len(city_config)
    /\ \E response \in Responses :
          IF response.status # 200
          THEN /\ s1_pc' = "fetch"
               /\ city_idx' = city_idx + 1
               /\ stdout' = Printed(stdout, "Fetching location metadata for city", City)
               /\ history' = Append(history, Event(City, "fetch", -1))
               /\ UNCHANGED location_metadata
          ELSE /\ s1_pc' = "fetched"
               /\ location_metadata' = get_location_metadata(response)
               /\ history' = Append(history, Event(City, "fetch", Len(response.results)))
               /\ stdout' = Printed(Printed(stdout, "Fetching location metadata for city", City),
                                  "Fetched metadata", City)
               /\ UNCHANGED city_idx
    /\ UNCHANGED <<city_config, END_DATE, city_data, transformed_df, puts>>
    /\ UNCHANGED <<dlVars, bucket>>
    /\ UNCHANGED notStage1

\* The iteration's get_location_metadata call.  raise_for_status() raises on a
\* non-success status and nothing catches it: main ends there.
FetchMetadata ==
    /\ s1_pc = "fetch"
    /\ city_idx <= Len(city_config)
    /\ \E response \in Responses :
          IF response.status # 200
          THEN /\ s1_pc' = "raised"
               /\ stdout' = Printed(stdout, "Fetching location metadata for city", City)
               /\ history' = Append(history, Event(City, "fetch", -1))
               /\ UNCHANGED location_metadata
          ELSE /\ s1_pc' = "fetched"
               /\ location_metadata' = get_location_metadata(response)
               /\ history' = Append(history, Event(City, "fetch", Len(response.results)))
               /\ stdout' = Printed(Printed(stdout, "Fetching location metadata for city", City),
                                  "Fetched metadata", City)
    /\ UNCHANGED <<city_config, END_DATE, city_idx, city_data, transformed_df, puts>>
    /\ UNCHANGED <<dlVars, bucket>>
    /\ UNCHANGED notStage1

\* StartDownload without its `if location_ids:` test.
StartDownloadUnguarded ==
    /\ s1_pc = "fetched"
    /\ s1_pc' = "download"
    /\ stdout' = Printed(Printed(stdout, "Fetching location IDs for city", City),
                       "Found locations. Downloading data...", City)
    /\ history' = Append(history, Event(City, "download", Len(MetaKeys(location_metadata))))
    /\ CallDownload(MetaKeys(location_metadata), END_DATE - NUMBER_OF_DAYS, END_DATE)
    /\ UNCHANGED <<city_config, END_DATE, city_idx, location_metadata, city_data,
                   transformed_df, puts, bucket>>
    /\ UNCHANGED notStage1

\* if location_ids: download_data_to_dataframe(location_ids, start_date, end_date)
StartDownload ==
    /\ s1_pc = "fetched"
    /\ MetaKeys(location_metadata) # <<>>
    /\ s1_pc' = "download"
    /\ stdout' = Printed(Printed(stdout, "Fetching location IDs for city", City),
                       "Found locations. Downloading data...", City)
    /\ history' = Append(history, Event(City, "download", Len(MetaKeys(location_metadata))))
    /\ CallDownload(MetaKeys(location_metadata), END_DATE - NUMBER_OF_DAYS, END_DATE)
    /\ UNCHANGED <<city_config, END_DATE, city_idx, location_metadata, city_data,
                   transformed_df, puts, bucket>>
    /\ UNCHANGED notStage1

\* else: print(f"No locations found for city: {city}. Skipping data download.")
SkipNoLocations ==
    /\ s1_pc = "fetched"
    /\ MetaKeys(location_metadata) = <<>>
    /\ s1_pc' = "fetch"
    /\ city_idx' = city_idx + 1
    /\ stdout' = Printed(Printed(stdout, "Fetching location IDs for city", City),
                       "No locations found for city. Skipping data download.", City)
    /\ UNCHANGED <<city_config, END_DATE, location_metadata, city_data, transformed_df,
                   puts, history>>
    /\ UNCHANGED <<dlVars, bucket>>
    /\ UNCHANGED notStage1

\* if not city_data.empty: enrich_data_with_metadata, transform_data_for_rag
EnrichTransform ==
    /\ s1_pc = "download"
    /\ dl_pc = "returned"
    /\ ~IsEmpty(city_data)
    /\ s1_pc' = "save"
    /\ dl_pc' = "idle"
    /\ city_data' = enrich_data_with_metadata(city_data, location_metadata)
    /\ transformed_df' = transform_data_for_rag(city_data')
    /\ history' = Append(history, Event(City, "enrich", Len(transformed_df'.rows)))
    /\ UNCHANGED <<city_config, END_DATE, city_idx, location_metadata, puts, stdout>>
    /\ UNCHANGED <<location_ids, start_date, end_date, loc_i, current_date,
                   consolidated_df, failed_locations, list_calls, bucket>>
    /\ UNCHANGED notStage1

\* else: print(f"No data available for city: {city} ...")
SkipNoData ==
    /\ s1_pc = "download"
    /\ dl_pc = "returned"
    /\ IsEmpty(city_data)
    /\ s1_pc' = "fetch"
    /\ dl_pc' = "idle"
    /\ city_idx' = city_idx + 1
    /\ stdout' = Printed(stdout, "No data available for city", City)
    /\ UNCHANGED <<city_config, END_DATE, location_metadata, city_data, transformed_df,
                   puts, history>>
    /\ UNCHANGED <<location_ids, start_date, end_date, loc_i, current_date,
                   consolidated_df, failed_locations, list_calls, bucket>>
    /\ UNCHANGED notStage1

\* save_to_s3 that puts nothing when the frame has no rows.
save_to_s3_SkippingEmpty ==
    /\ s1_pc = "save"
    /\ s1_pc' = "fetch"
    /\ city_idx' = city_idx + 1
    /\ IF IsEmpty(transformed_df)
       THEN UNCHANGED <<puts, stdout, history>>
       ELSE /\ puts' = Append(puts, [Key |-> City, Body |-> to_csv(transformed_df)])
            /\ stdout' = Printed(Printed(stdout, "Consolidated data saved to S3", City),
                               "Data for city saved", City)
            /\ history' = Append(history, Event(City, "write", Len(to_csv(transformed_df).lines)))
    /\ UNCHANGED <<city_config, END_DATE, location_metadata, city_data, transformed_df>>
    /\ UNCHANGED <<dlVars, bucket>>
    /\ UNCHANGED notStage1

\* save_to_s3(transformed_df, TARGET_BUCKET_NAME, city_output_key)
save_to_s3 ==
    /\ s1_pc = "save"
    /\ s1_pc' = "fetch"
    /\ city_idx' = city_idx + 1
    /\ puts' = Append(puts, [Key |-> City, Body |-> to_csv(transformed_df)])
    /\ stdout' = Printed(Printed(stdout, "Consolidated data saved to S3", City),
                       "Data for city saved", City)
    /\ history' = Append(history, Event(City, "write", Len(to_csv(transformed_df).lines)))
    /\ UNCHANGED <<city_config, END_DATE, location_metadata, city_data, transformed_df>>
    /\ UNCHANGED <<dlVars, bucket>>
    /\ UNCHANGED notStage1

\* print("Processing completed for all cities.")
Completed ==
    /\ s1_pc = "fetch"
    /\ city_idx > Len(city_config)
    /\ s1_pc' = "done"
    /\ stdout' = Printed(stdout, "Processing completed for all cities.", "")
    /\ UNCHANGED <<city_config, END_DATE, city_idx, location_metadata, city_data,
                   transformed_df, puts, history>>
    /\ UNCHANGED <<dlVars, bucket>>
    /\ UNCHANGED notStage1

\* The keys of cities_config.json, in file order.
CityNames == <<"X", "Y", "Z", "W">>

\* END_DATE: the default 31/12/2023, or 01/01/2024
EndDates == {61, 62}

\* Enrichment is not being exercised.
EnrichIdle ==
    /\ enr_input = EmptyFrame
    /\ enr_metadata = <<>>
    /\ enr_prev = EmptyFrame
    /\ enr_df = EmptyFrame
    /\ enr_passes = 0

\* create_daily_forecast_prompts_v4 is not being called.
GeneratorIdle ==
    /\ gen_pc = "idle"
    /\ gen_df = <<>>
    /\ gen_location = ""
    /\ history_length_days = 0
    /\ forecast_days = 0
    /\ prompt_type = ""
    /\ max_prompts_per_city = 0
    /\ gen_raised = FALSE
    /\ output_list = <<>>

\* 2_generate_prompts.py's main is not running.
Stage2Idle ==
    /\ config = [state |-> "ok", cities |-> <<>>]
    /\ target_objects = <<>>
    /\ s2_pc = "idle"
    /\ locations_list = <<>>
    /\ s2_i = 1
    /\ all_zero_shot_prompts = <<>>
    /\ all_ft_prompts = <<>>
    /\ json_files = <<>>
    /\ s2_stdout = <<>>
    /\ s2_loads = <<>>

\* main as it enters the loop over city_config.items()
Init ==
    /\ EnrichIdle
    /\ GeneratorIdle
    /\ Stage2Idle
    /\ city_config \in {SubSeq(CityNames, 1, n) : n \in 1..MaxCities}
    /\ END_DATE \in EndDates
    /\ bucket \in BucketsOver({<<"1", 61>>, <<"2", 61>>}, {"data", "nulls"})
    /\ s1_pc = "fetch"
    /\ city_idx = 1
    /\ location_metadata = <<>>
    /\ city_data = EmptyFrame
    /\ transformed_df = EmptyFrame
    /\ puts = <<>>
    /\ stdout = <<>>
    /\ history = <<>>
    /\ dl_pc = "idle"
    /\ location_ids = <<>>
    /\ start_date = 0
    /\ end_date = 0
    /\ loc_i = 1
    /\ current_date = 0
    /\ consolidated_df = EmptyFrame
    /\ failed_locations = <<>>
    /\ list_calls = <<>>

Next ==
    \/ FetchMetadata
    \/ StartDownload
    \/ SkipNoLocations
    \/ DownloadVisit
    \/ DownloadReturn
    \/ EnrichTransform
    \/ SkipNoData
    \/ save_to_s3
    \/ Completed

Spec == Init /\ [][Next]_vars

\* ------------------------------ a direct call of download_data_to_dataframe
DirectDates == 60 .. (60 + MaxSpan)

InitDownload ==
    /\ EnrichIdle
    /\ GeneratorIdle
    /\ Stage2Idle
    /\ city_config = <<>>
    /\ END_DATE = 61
    /\ bucket \in BucketsOver({<<"1", 60>>, <<"1", 62>>, <<"2", 61>>}, {"data", "pair", "header"})
    /\ s1_pc = "direct"
    /\ city_idx = 1
    /\ location_metadata = <<>>
    /\ city_data = EmptyFrame
    /\ transformed_df = EmptyFrame
    /\ puts = <<>>
    /\ stdout = <<>>
    /\ history = <<>>
    /\ dl_pc = "loop"
    /\ location_ids \in {<<>>, <<"1">>, <<"2">>, <<"1", "2">>, <<"2", "1">>}
    /\ start_date \in DirectDates
    /\ end_date \in DirectDates
    /\ loc_i = 1
    /\ current_date = start_date
    /\ consolidated_df = EmptyFrame
    /\ failed_locations = <<>>
    /\ list_calls = <<>>

NextDownload ==
    \/ DownloadVisit
    \/ DownloadReturn

SpecDownload == InitDownload /\ [][NextDownload]_vars

\* The call runs on: the loops and the return are straight-line code that
\* nothing else has to enable.  Every step moves one of the loop variables or
\* returns.
\* The direct calls over the buckets whose files hold two rows each.
InitDownloadFair == InitDownload /\ \A o \in bucket : o.kind = "pair"

SpecDownloadFair == InitDownloadFair /\ [][NextDownload]_vars /\ WF_<<dl_pc, loc_i, current_date>>(NextDownload)

\* ------------------------- enrichment applied to a dataset (1_data_ingest.py)
\* The datasets enrichment is given: a schema that has location_id and whose
\* normalised column names are distinct, and up to MaxEnrichRows rows of cells
\* drawn per column.
EnrichSchemas ==
    {<<"location_id", "datetime", "value">>,
     <<"location_id", "Location", "Date", "Value">>,
     <<"location_id", "date", "provider">>,
     <<"Sensor ID", "location_id", "date">>}

CellsOf(column) ==
    CASE column = "location_id" -> {"1", "2", NaN}
      [] column = "datetime" -> {"2023-12-30T01:00:00+05:30"}
      [] column = "value" -> {"12", NaN}
      [] column = "Value" -> {"12"}
      [] column = "Location" -> {"Delhi"}
      [] column \in {"date", "Date"} -> {"2023-12-30", "30th"}
      [] column = "provider" -> {"unknown"}
      [] column = "Sensor ID" -> {"7"}

RowsOver(columns) ==
    {r \in [DOMAIN columns -> UNION {CellsOf(columns[c]) : c \in DOMAIN columns}] :
        \A c \in DOMAIN columns : r[c] \in CellsOf(columns[c])}

SeqsUpTo(S, n) == UNION {[1 .. k -> S] : k \in 0 .. n}

EnrichInputs ==
    UNION {{[columns |-> columns, rows |-> rows] : rows \in SeqsUpTo(RowsOver(columns), MaxEnrichRows)} :
             columns \in EnrichSchemas}

\* The metadata mappings: none, or both stations.
EnrichMetadata ==
    {<<>>, <<extract_metadata_fields(LocationObject("1")), extract_metadata_fields(LocationObject("2"))>>}

\* enrich_data_with_metadata followed by transform_data_for_rag, as in main
Enrichment(df, metadata) == transform_data_for_rag(enrich_data_with_metadata(df, metadata))

\* Enrichment is applied to the dataset at hand.
ApplyEnrichment ==
    /\ enr_passes < MaxPasses
    /\ enr_prev' = enr_df
    /\ enr_df' = Enrichment(enr_df, enr_metadata)
    /\ enr_passes' = enr_passes + 1
    /\ UNCHANGED <<enr_input, enr_metadata>>
    /\ UNCHANGED <<s1Vars, dlVars, bucket, genVars, s2Vars>>

\* main and the downloader are not running.
Stage1Idle ==
    /\ city_config = <<>>
    /\ END_DATE = 61
    /\ bucket = {}
    /\ s1_pc = "idle"
    /\ city_idx = 1
    /\ location_metadata = <<>>
    /\ city_data = EmptyFrame
    /\ transformed_df = EmptyFrame
    /\ puts = <<>>
    /\ stdout = <<>>
    /\ history = <<>>
    /\ dl_pc = "idle"
    /\ location_ids = <<>>
    /\ start_date = 0
    /\ end_date = 0
    /\ loc_i = 1
    /\ current_date = 0
    /\ consolidated_df = EmptyFrame
    /\ failed_locations = <<>>
    /\ list_calls = <<>>

InitEnrich ==
    /\ Stage1Idle
    /\ GeneratorIdle
    /\ Stage2Idle
    /\ enr_input \in EnrichInputs
    /\ enr_metadata \in EnrichMetadata
    /\ enr_prev = enr_input
    /\ enr_df = enr_input
    /\ enr_passes = 0

NextEnrich == ApplyEnrichment

SpecEnrich == InitEnrich /\ [][NextEnrich]_vars

\* -------------------- 2_generate_prompts.py: create_daily_forecast_prompts_v4
\* A row of df is [location_name, datetime, value]: datetime counts the hours
\* since 2023-01-01 00:00, and value is <<v>> for the number v and <<>> for a
\* null.  A date is a day ordinal, <<d>>, or <<>> for NaT.

\* datetime.dt.date / resample('D'): the calendar day of a datetime
DateOf(datetime) == datetime \div 24

\* sort_values(by='datetime')
RECURSIVE SortByDatetime(_)
SortByDatetime(rows) ==
    IF rows = <<>> THEN <<>>
    ELSE LET i == CHOOSE k \in DOMAIN rows : \A j \in DOMAIN rows : rows[k].datetime <= rows[j].datetime
         IN <<rows[i]>> \o SortByDatetime(SubSeq(rows, 1, i - 1) \o SubSeq(rows, i + 1, Len(rows)))

\* df[df['location_name'] == location_name].sort_values(by='datetime')
LocationRows(df, location_name) ==
    SortByDatetime(SelectSeq(df, LAMBDA r : r.location_name = location_name))

\* The non-null values of the rows of day d, in row order.
DayValues(rows, d) ==
    LET hit == SelectSeq(rows, LAMBDA r : DateOf(r.datetime) = d /\ r.value # <<>>)
    IN [k \in DOMAIN hit |-> hit[k].value[1]]

\* resample('D').mean().dropna().reset_index() with the 'date' column: one row
\* per calendar day from the first to the last, its value the mean of the day's
\* non-null values (kept exact, as sum over count); the days without one are
\* dropped.
RECURSIVE DailyFrom(_, _, _)
DailyFrom(rows, d, last) ==
    IF d > last THEN <<>>
    ELSE (IF DayValues(rows, d) = <<>> THEN <<>>
          ELSE <<[date |-> d, sum |-> SeqSum(DayValues(rows, d)), count |-> Len(DayValues(rows, d))]>>)
         \o DailyFrom(rows, d + 1, last)

DailyData(df, location_name) ==
    LET rows == LocationRows(df, location_name)
    IN IF rows = <<>> THEN <<>>
       ELSE DailyFrom(rows, DateOf(rows[1].datetime), DateOf(rows[Len(rows)].datetime))

\* f"{row[parameter]:.2f}": the mean in hundredths, rounded to the nearest
\* (a mean of fewer than eight integers is never half-way between two).
Format2f(row) == (200 * row.sum + row.count) \div (2 * row.count)

\* "\n".join(f"| {row['date']} | {row[parameter]:.2f} |" ...): the table body
TableBody(daily) == [k \in DOMAIN daily |-> [date |-> daily[k].date, value |-> Format2f(daily[k])]]

\* A max of the date column that raises on an empty column.
MaxDateRaising(daily) ==
    IF daily = <<>> THEN [raised |-> TRUE, date |-> <<>>]
    ELSE [raised |-> FALSE,
          date |-> <<CHOOSE d \in {daily[k].date : k \in DOMAIN daily} :
                        \A k \in DOMAIN daily : daily[k].date <= d>>]

\* daily_data['date'].max(): the latest date; the max of an empty column is a
\* null and nothing is raised
MaxDate(daily) ==
    IF daily = <<>> THEN [raised |-> FALSE, date |-> <<>>]
    ELSE [raised |-> FALSE,
          date |-> <<CHOOSE d \in {daily[k].date : k \in DOMAIN daily} :
                        \A k \in DOMAIN daily : daily[k].date <= d>>]

\* date + pd.Timedelta(days=n): NaT for a null date
PlusDays(date, n) == IF date = <<>> THEN <<>> ELSE <<date[1] + n>>

\* The historical window that reaches one day further back.
HistoricalWindowOneDayMore(daily, start, end) ==
    IF start = <<>> \/ end = <<>> THEN <<>>
    ELSE SelectSeq(daily, LAMBDA r : r.date >= start[1] - 1 /\ r.date <= end[1])

\* daily_data[(date >= start) & (date <= end)].sort_values(by='date'): no row
\* compares true against NaT
HistoricalWindow(daily, start, end) ==
    IF start = <<>> \/ end = <<>> THEN <<>>
    ELSE SelectSeq(daily, LAMBDA r : r.date >= start[1] /\ r.date <= end[1])

\* The prompt_type == 'zero-shot' branch
ZeroShot(daily, location_name, hist_days, fc_days) ==
    LET latest == MaxDate(daily)
        end_historical_date == latest.date
        start_historical_date == PlusDays(end_historical_date, -(hist_days - 1))
        forecast_start_date == PlusDays(end_historical_date, 1)
        forecast_end_date == PlusDays(forecast_start_date, fc_days - 1)
        historical_data == HistoricalWindow(daily, start_historical_date, end_historical_date)
    IN IF latest.raised THEN [raised |-> TRUE, output_list |-> <<>>]
       ELSE [raised |-> FALSE,
             output_list |->
               <<[Prompt |-> [location_name |-> location_name,
                              parameter |-> "value",
                              historical_from |-> start_historical_date,
                              historical_to |-> end_historical_date,
                              table |-> TableBody(historical_data),
                              forecast_from |-> forecast_start_date,
                              forecast_to |-> forecast_end_date],
                  Completion |-> <<>>]>>]

\* The record of the window whose fc_days starts at row i (0-based, as in
\* the source): rows [i - hist_days, i) and [i, i + fc_days).
FineTuningRecord(daily, location_name, hist_days, fc_days, i) ==
    [Prompt |-> [location_name |-> location_name,
                 parameter |-> "value",
                 table |-> TableBody(SubSeq(daily, i - hist_days + 1, i))],
     Completion |-> TableBody(SubSeq(daily, i + 1, i + fc_days))]

\* The fine-tuning branch with > for >= in its test.
FineTuningStrict(daily, location_name, hist_days, fc_days) ==
    IF Len(daily) > hist_days + fc_days
    THEN [raised |-> FALSE,
          output_list |->
            [k \in 1 .. (Len(daily) - fc_days + 1 - hist_days) |->
                FineTuningRecord(daily, location_name, hist_days, fc_days, hist_days + k - 1)]]
    ELSE [raised |-> FALSE, output_list |-> <<>>]

\* The prompt_type == 'fine-tuning' branch:
\* for i in range(history_length_days, len(daily_data) - forecast_days + 1)
FineTuning(daily, location_name, hist_days, fc_days) ==
    IF Len(daily) >= hist_days + fc_days
    THEN [raised |-> FALSE,
          output_list |->
            [k \in 1 .. (Len(daily) - fc_days + 1 - hist_days) |->
                FineTuningRecord(daily, location_name, hist_days, fc_days, hist_days + k - 1)]]
    ELSE [raised |-> FALSE, output_list |-> <<>>]

\* The generator with its output cut to the first max_prompts_per_city records.
create_daily_forecast_prompts_capped(df, location_name, hist_days, fc_days, type, max_per_city) ==
    LET daily_data == DailyData(df, location_name)
        result == IF type = "zero-shot" THEN ZeroShot(daily_data, location_name, hist_days, fc_days)
                  ELSE IF type = "fine-tuning"
                  THEN FineTuning(daily_data, location_name, hist_days, fc_days)
                  ELSE [raised |-> FALSE, output_list |-> <<>>]
    IN [result EXCEPT !.output_list =
            IF Len(@) > max_per_city THEN SubSeq(@, 1, max_per_city) ELSE @]

\* create_daily_forecast_prompts_v4(df, location_name, parameter, history_length_days,
\*     forecast_days, prompt_type, max_prompts_per_city): whether it raised and
\* its output_list.  max_prompts_per_city is not read.
create_daily_forecast_prompts_v4(df, location_name, hist_days, fc_days, type, max_per_city) ==
    LET daily_data == DailyData(df, location_name)
    IN IF type = "zero-shot" THEN ZeroShot(daily_data, location_name, hist_days, fc_days)
       ELSE IF type = "fine-tuning" THEN FineTuning(daily_data, location_name, hist_days, fc_days)
       ELSE [raised |-> FALSE, output_list |-> <<>>]

\* ------------------------------ the datasets the prompt generator is given
\* The rows a dataset holds for calendar day d, by the day's pattern.
DayRows(d, pattern) ==
    LET row(name, hour, value) == [location_name |-> name, datetime |-> 24 * d + hour, value |-> value]
    IN CASE pattern = "one" -> <<row("X", 6, <<d + 1>>)>>
         [] pattern = "two" -> <<row("X", 18, <<d + 2>>), row("X", 1, <<d + 1>>)>>
         [] pattern = "null" -> <<row("X", 6, <<>>)>>
         [] pattern = "other" -> <<row("Y", 6, <<9>>)>>
         [] OTHER -> <<>>

\* The dataset with the rows of days 0 .. n-1, latest day first or last.
RECURSIVE DatasetOf(_, _, _)
DatasetOf(patterns, n, order) ==
    IF n = 0 THEN <<>>
    ELSE IF order = "ascending"
         THEN DatasetOf(patterns, n - 1, order) \o DayRows(n - 1, patterns[n - 1])
         ELSE DayRows(n - 1, patterns[n - 1]) \o DatasetOf(patterns, n - 1, order)

\* Calls with short windows over every dataset of MaxGenDays days.
SmallCalls ==
    {[df |-> DatasetOf(p, MaxGenDays, order), hist_days |-> h, fc_days |-> f, max_per_city |-> 1] :
        p \in [0 .. (MaxGenDays - 1) -> {"none", "one", "two", "null", "other"}],
        order \in {"ascending", "descending"},
        h \in 1 .. MaxHistory, f \in 1 .. MaxForecast}

\* Calls with the driver's window over the datasets of ExampleDays days that
\* lack a measurement on at most MaxGaps of them.
DriverCalls ==
    {[df |-> DatasetOf(p, ExampleDays, "ascending"),
      hist_days |-> history_length_days_forecast,
      fc_days |-> forecast_window_days_forecast,
      max_per_city |-> max_prompts] :
        p \in {q \in [0 .. (ExampleDays - 1) -> {"none", "one"}] :
                 Cardinality({d \in DOMAIN q : q[d] = "none"}) <= MaxGaps}}

\* What a call with prompt_type = type leaves behind as it returns.
Returns(type) ==
    /\ gen_pc' = "returned"
    /\ prompt_type' = type
    /\ LET result == create_daily_forecast_prompts_v4(gen_df, gen_location, history_length_days,
                                                     forecast_days, type, max_prompts_per_city)
       IN /\ gen_raised' = result.raised
          /\ output_list' = result.output_list
    /\ UNCHANGED <<gen_df, gen_location, history_length_days, forecast_days, max_prompts_per_city>>
    /\ UNCHANGED <<s1Vars, dlVars, bucket, enrVars, s2Vars>>

\* create_daily_forecast_prompts_v4(..., prompt_type='zero-shot', ...)
GenerateZeroShot ==
    /\ gen_pc = "ready"
    /\ Returns("zero-shot")

\* create_daily_forecast_prompts_v4(..., prompt_type='fine-tuning', ...)
GenerateFineTuning ==
    /\ gen_pc = "ready"
    /\ Returns("fine-tuning")

InitPrompts ==
    /\ Stage1Idle
    /\ EnrichIdle
    /\ Stage2Idle
    /\ gen_pc = "ready"
    /\ \E call \in SmallCalls \cup DriverCalls :
          /\ gen_df = call.df
          /\ history_length_days = call.hist_days
          /\ forecast_days = call.fc_days
          /\ max_prompts_per_city = call.max_per_city
    /\ gen_location = "X"
    /\ prompt_type = ""
    /\ gen_raised = FALSE
    /\ output_list = <<>>

NextPrompts ==
    \/ GenerateZeroShot
    \/ GenerateFineTuning

SpecPrompts == InitPrompts /\ [][NextPrompts]_vars

\* ------------------------------------------ 2_generate_prompts.py: main
\* The dataset with the given pattern on each of the days 0 .. n-1.
Uniform(n, pattern) == DatasetOf([d \in 0 .. (n - 1) |-> pattern], n, "ascending")

\* What the target bucket may hold under a city's key: nothing, bytes that do
\* not read as CSV, or a dataset -- without rows, with measurements of "X" on
\* ExampleDays - 2, - 1 or - 0 days, or with measurements of "Y".
Artifacts ==
    {[status |-> "absent", df |-> <<>>], [status |-> "unreadable", df |-> <<>>]}
    \cup {[status |-> "ok", df |-> df] :
            df \in {<<>>, Uniform(ExampleDays - 2, "one"), Uniform(ExampleDays - 1, "one"),
                    Uniform(ExampleDays, "one"), Uniform(ExampleDays - 1, "other")}}

Location == locations_list[s2_i]

\* print(s3_file_key): f"{OUTPUT_FILE_KEY_PREFIX}/{location}_data.csv"
PrintedKey(out, location) == Printed(out, "{OUTPUT_FILE_KEY_PREFIX}/{location}_data.csv", location)

\* print("-" * 80)
Rule == [msg |-> "--------------------------------------------------------------------------------",
         city |-> ""]

\* The heading and then, for every record accumulated so far, print(prompt)
\* and a rule.
ZeroShotLines(accumulated) ==
    <<[msg |-> "Zero-shot Prompt for Daily Forecast (Up to 1 Week, Revised):", city |-> ""]>>
    \o [k \in 1 .. (2 * Len(accumulated)) |->
           IF k % 2 = 1
           THEN [msg |-> "{prompt}", city |-> accumulated[(k + 1) \div 2].Prompt.location_name]
           ELSE Rule]

\* The heading and then, for every record accumulated so far, its Prompt, its
\* Completion and a rule.
FineTuningLines(accumulated) ==
    <<[msg |-> "\nFine-tuning Prompts for Daily Forecast (Up to 1 Week, Instruction-Response Pairs, Revised):",
       city |-> ""]>>
    \o [k \in 1 .. (3 * Len(accumulated)) |->
           IF k % 3 = 1
           THEN [msg |-> "Prompt:\n{example['Prompt']}",
                 city |-> accumulated[(k + 2) \div 3].Prompt.location_name]
           ELSE IF k % 3 = 2
           THEN [msg |-> "\nCompletion:\n{example['Completion']}",
                 city |-> accumulated[(k + 2) \div 3].Prompt.location_name]
           ELSE Rule]

\* The try block around load_city_config with its handlers left locations_list
\* empty instead of unbound.
LoadConfigDefaultingToEmpty ==
    /\ s2_pc = "start"
    /\ IF config.state = "ok"
       THEN /\ locations_list' = config.cities
            /\ s2_stdout' = Printed(s2_stdout, "Loaded cities:", "")
       ELSE /\ locations_list' = <<>>
            /\ s2_stdout' = Printed(s2_stdout,
                                    IF config.state = "missing"
                                    THEN "Error: The configuration file 'cities_config.json' was not found."
                                    ELSE "Error: The configuration file contains invalid JSON.", "")
    /\ s2_pc' = "loop"
    /\ UNCHANGED <<config, target_objects, s2_i, all_zero_shot_prompts, all_ft_prompts,
                   json_files, s2_loads>>
    /\ UNCHANGED <<s1Vars, dlVars, bucket, enrVars, genVars>>

\* The try block around load_city_config: on success locations_list is bound to
\* the configured cities; on FileNotFoundError or JSONDecodeError the handler
\* prints the error and binds nothing, so the for statement that follows raises
\* (locations_list is unbound) and main ends there.
LoadConfig ==
    /\ s2_pc = "start"
    /\ IF config.state = "ok"
       THEN /\ locations_list' = config.cities
            /\ s2_stdout' = Printed(s2_stdout, "Loaded cities:", "")
            /\ s2_pc' = "loop"
       ELSE /\ UNCHANGED locations_list
            /\ s2_stdout' = Printed(s2_stdout,
                                    IF config.state = "missing"
                                    THEN "Error: The configuration file 'cities_config.json' was not found."
                                    ELSE "Error: The configuration file contains invalid JSON.", "")
            /\ s2_pc' = "raised"
    /\ UNCHANGED <<config, target_objects, s2_i, all_zero_shot_prompts, all_ft_prompts,
                   json_files, s2_loads>>
    /\ UNCHANGED <<s1Vars, dlVars, bucket, enrVars, genVars>>

\* load_data_from_s3 that lets the storage error propagate.
SkipLocationRaising ==
    /\ s2_pc = "loop"
    /\ s2_i <= Len(locations_list)
    /\ target_objects[Location].status # "ok"
    /\ s2_loads' = Append(s2_loads, Location)
    /\ s2_stdout' = PrintedKey(s2_stdout, Location)
    /\ s2_pc' = "raised"
    /\ UNCHANGED <<config, target_objects, locations_list, s2_i, all_zero_shot_prompts,
                   all_ft_prompts, json_files>>
    /\ UNCHANGED <<s1Vars, dlVars, bucket, enrVars, genVars>>

\* An iteration in which the key is printed and load_data_from_s3 catches the
\* exception of get_object or read_csv, prints it and returns None:
\* `if df_hourly is not None` fails.
SkipLocation ==
    /\ s2_pc = "loop"
    /\ s2_i <= Len(locations_list)
    /\ target_objects[Location].status # "ok"
    /\ s2_loads' = Append(s2_loads, Location)
    /\ s2_stdout' = Printed(PrintedKey(s2_stdout, Location), "Error loading file from S3", Location)
    /\ s2_i' = s2_i + 1
    /\ UNCHANGED <<config, target_objects, s2_pc, locations_list, all_zero_shot_prompts,
                   all_ft_prompts, json_files>>
    /\ UNCHANGED <<s1Vars, dlVars, bucket, enrVars, genVars>>

\* An iteration in which the key is printed and the artifact is read: the
\* zero-shot call and then the fine-tuning call, each on a copy of df_hourly,
\* extend the two accumulators, and after each the whole accumulator is
\* printed.  A call that raises ends main.
GenerateForLocation ==
    /\ s2_pc = "loop"
    /\ s2_i <= Len(locations_list)
    /\ target_objects[Location].status = "ok"
    /\ s2_loads' = Append(s2_loads, Location)
    /\ LET df_hourly == target_objects[Location].df
           zs == create_daily_forecast_prompts_v4(df_hourly, Location,
                    history_length_days_forecast, forecast_window_days_forecast,
                    "zero-shot", max_prompts)
           ft == create_daily_forecast_prompts_v4(df_hourly, Location,
                    history_length_days_forecast, forecast_window_days_forecast,
                    "fine-tuning", max_prompts)
       IN IF zs.raised
          THEN /\ s2_pc' = "raised"
               /\ s2_stdout' = PrintedKey(s2_stdout, Location)
               /\ UNCHANGED <<s2_i, all_zero_shot_prompts, all_ft_prompts>>
          ELSE IF ft.raised
          THEN /\ s2_pc' = "raised"
               /\ all_zero_shot_prompts' = all_zero_shot_prompts \o zs.output_list
               /\ s2_stdout' = PrintedKey(s2_stdout, Location)
                                  \o ZeroShotLines(all_zero_shot_prompts')
               /\ UNCHANGED <<s2_i, all_ft_prompts>>
          ELSE /\ all_zero_shot_prompts' = all_zero_shot_prompts \o zs.output_list
               /\ all_ft_prompts' = all_ft_prompts \o ft.output_list
               /\ s2_stdout' = PrintedKey(s2_stdout, Location)
                                  \o ZeroShotLines(all_zero_shot_prompts')
                                  \o FineTuningLines(all_ft_prompts')
               /\ s2_i' = s2_i + 1
               /\ UNCHANGED s2_pc
    /\ UNCHANGED <<config, target_objects, locations_list, json_files>>
    /\ UNCHANGED <<s1Vars, dlVars, bucket, enrVars, genVars>>

\* save_to_json(all_zero_shot_prompts, "data/air_quality_forecast_zeroshot_prompts.json")
SaveZeroShot ==
    /\ s2_pc = "loop"
    /\ s2_i > Len(locations_list)
    /\ json_files' = Append(json_files,
                            [filename |-> "data/air_quality_forecast_zeroshot_prompts.json",
                             data |-> all_zero_shot_prompts])
    /\ s2_stdout' = Printed(s2_stdout, "Data saved to", "")
    /\ s2_pc' = "save_ft"
    /\ UNCHANGED <<config, target_objects, locations_list, s2_i, all_zero_shot_prompts,
                   all_ft_prompts, s2_loads>>
    /\ UNCHANGED <<s1Vars, dlVars, bucket, enrVars, genVars>>

\* save_to_json(all_ft_prompts, "data/air_quality_forecast_ft_prompts.json")
SaveFineTuning ==
    /\ s2_pc = "save_ft"
    /\ json_files' = Append(json_files,
                            [filename |-> "data/air_quality_forecast_ft_prompts.json",
                             data |-> all_ft_prompts])
    /\ s2_stdout' = Printed(s2_stdout, "Data saved to", "")
    /\ s2_pc' = "done"
    /\ UNCHANGED <<config, target_objects, locations_list, s2_i, all_zero_shot_prompts,
                   all_ft_prompts, s2_loads>>
    /\ UNCHANGED <<s1Vars, dlVars, bucket, enrVars, genVars>>

\* The configuration resource: present with 1 .. MaxCities cities, missing, or
\* not JSON.
Configs ==
    {[state |-> "ok", cities |-> SubSeq(CityNames, 1, n)] : n \in 1 .. MaxCities}
    \cup {[state |-> "missing", cities |-> <<>>], [state |-> "malformed", cities |-> <<>>]}

InitStage2 ==
    /\ Stage1Idle
    /\ EnrichIdle
    /\ GeneratorIdle
    /\ config \in Configs
    /\ target_objects \in [Range(config.cities) -> Artifacts]
    /\ s2_pc = "start"
    /\ locations_list = <<>>
    /\ s2_i = 1
    /\ all_zero_shot_prompts = <<>>
    /\ all_ft_prompts = <<>>
    /\ json_files = <<>>
    /\ s2_stdout = <<>>
    /\ s2_loads = <<>>

NextStage2 ==
    \/ LoadConfig
    \/ SkipLocation
    \/ GenerateForLocation
    \/ SaveZeroShot
    \/ SaveFineTuning

SpecStage2 == InitStage2 /\ [][NextStage2]_vars

\* ======================================================================
\* Properties of download_data_to_dataframe (SpecDownload)
\* ======================================================================
\* The days of location_ids[i] the loops have visited so far.
VisitedDays(i) ==
    IF i < loc_i THEN start_date .. end_date
    ELSE IF i = loc_i THEN start_date .. (current_date - 1)
    ELSE {}

\* The objects of the bucket that are the archive's file of (location_id, d).
DayObjects(location_id, d) ==
    {o \in bucket : o.locationid = location_id /\ o.year = Year(d)
                    /\ o.month = Month(d) /\ KeyEndsWith(o, d)}

RECURSIVE RowsIn(_)
RowsIn(objs) ==
    IF objs = {} THEN 0
    ELSE LET o == CHOOSE x \in objs : TRUE
         IN Len(ReadCsvGz(o).rows) + RowsIn(objs \ {o})

\* The archive files of the visited pairs.
VisitedObjects ==
    UNION {UNION {DayObjects(location_ids[i], d) : d \in VisitedDays(i)} :
             i \in DOMAIN location_ids}

\* C1: every visited (location, day) pair whose listing holds no object ending
\* with the day's YYYYMMDD.csv.gz contributes no row, and the location is
\* appended to failed_locations exactly once for that day -- also when the
\* month's listing holds files of other days only.
C1_MissingDayRecordedOnce ==
    /\ Len(consolidated_df.rows) = RowsIn(VisitedObjects)
    /\ \A i \in DOMAIN location_ids :
          Count(failed_locations, location_ids[i])
            = Cardinality({d \in VisitedDays(i) : DayObjects(location_ids[i], d) = {}})

\* The days of the inclusive range, ascending; none when start is after end.
DaysOfRange(start, end) == [k \in 1 .. (end - start + 1) |-> start + k - 1]

\* The (location, day) pairs of ids x start..end, location-major.
RECURSIVE PairsOf(_, _, _)
PairsOf(ids, start, end) ==
    IF ids = <<>> THEN <<>>
    ELSE [k \in DOMAIN DaysOfRange(start, end) |-> <<Head(ids), DaysOfRange(start, end)[k]>>]
         \o PairsOf(Tail(ids), start, end)

\* The rows of the archive's files of the pairs, pair after pair, each file's
\* rows in file order.
RECURSIVE RowsOfPairs(_)
RowsOfPairs(pairs) ==
    IF pairs = <<>> THEN <<>>
    ELSE LET files == SortByStamp(DayObjects(Head(pairs)[1], Head(pairs)[2]))
         IN (IF files = <<>> THEN <<>> ELSE ReadCsvGz(files[1]).rows) \o RowsOfPairs(Tail(pairs))

\* The pairs the loops have visited, as the loop variables tell.
VisitedCount ==
    (loc_i - 1) * Len(DaysOfRange(start_date, end_date)) + (current_date - start_date)

C11_Trace ==
    LET pairs == PairsOf(location_ids, start_date, end_date)
        visited == SubSeq(pairs, 1, Len(list_calls))
    IN /\ dl_pc \in {"loop", "returned"}
       /\ Len(list_calls) <= Len(pairs)
       /\ Len(list_calls) = VisitedCount
       /\ list_calls = [k \in DOMAIN visited |-> Prefix(visited[k][1], visited[k][2])]
       /\ \A k \in DOMAIN list_calls : list_calls[k].locationid \in Range(location_ids)
       /\ consolidated_df.rows = RowsOfPairs(visited)
       /\ dl_pc = "returned" =>
             /\ Len(list_calls) = Len(pairs)
             /\ city_data = consolidated_df
             /\ start_date > end_date => city_data = EmptyFrame

\* C11: download_data_to_dataframe lists the month of every (location, day)
\* pair of the identifiers and the inclusive range exactly once, location-major
\* and day-ascending, asks for prefixes of the given identifiers only, never
\* raises, returns in the end (an empty dataset when start is after end), and
\* the returned rows are those of the files in iteration order, each file's
\* rows in file order.
C11_DownloadIteration == []C11_Trace /\ <>(dl_pc = "returned")

\* A call over two locations and three days has returned rows of both, the
\* second location of the archive asked for first.
C11_Witness ==
    /\ dl_pc = "returned"
    /\ location_ids = <<"2", "1">>
    /\ Len(list_calls) = 6
    /\ Len(city_data.rows) >= 4
    /\ city_data.rows[1][1] = "2"
    /\ city_data.rows[Len(city_data.rows)][1] = "1"

\* ======================================================================
\* Properties of the Stage 1 driver (Spec)
\* ======================================================================
EventsOf(c) == SelectSeq(history, LAMBDA e : e.city = c)
PhasesOf(c) == [k \in DOMAIN EventsOf(c) |-> EventsOf(c)[k].phase]
PutsOf(c) == SelectSeq(puts, LAMBDA p : p.Key = c)

\* C2: a city whose metadata fetch returns zero locations is never downloaded
\* and never written, and the run goes on to the next city.
C2_NoLocationsNoDownload ==
    \A k \in DOMAIN city_config :
        LET c == city_config[k]
        IN (\E e \in Range(history) : e.city = c /\ e.phase = "fetch" /\ e.n = 0) =>
              /\ PhasesOf(c) = <<"fetch">>
              /\ PutsOf(c) = <<>>
              /\ city_idx > k \/ (city_idx = k /\ s1_pc = "fetched")
              /\ (city_idx = k + 1 /\ k < Len(city_config)
                    /\ EventsOf(city_config[k + 1]) = <<>>) => s1_pc = "fetch"

\* A city returned no location and the next city's metadata has been fetched.
C2_Witness ==
    \E k \in 1 .. (Len(city_config) - 1) :
        /\ \E e \in Range(history) : e.city = city_config[k] /\ e.phase = "fetch" /\ e.n = 0
        /\ \E e \in Range(history) : e.city = city_config[k + 1] /\ e.phase = "fetch"

\* C7 (state part): after a non-success status for a city nothing but that one
\* fetch was done for it, main has ended, and neither that city nor a later one
\* was downloaded or written.
C7_Raised ==
    \A k \in DOMAIN city_config :
        (\E e \in Range(history) : e.city = city_config[k] /\ e.phase = "fetch" /\ e.n = -1) =>
            /\ s1_pc = "raised"
            /\ city_idx = k
            /\ Len(EventsOf(city_config[k])) = 1
            /\ \A j \in k .. Len(city_config) :
                  /\ PutsOf(city_config[j]) = <<>>
                  /\ j > k => EventsOf(city_config[j]) = <<>>

\* C7: a non-success HTTP status from the metadata API propagates uncaught and
\* is not retried: that city and the cities after it are neither downloaded
\* nor written, and what was put for earlier cities stays as it is.
C7_HttpErrorAbortsRun ==
    /\ []C7_Raised
    /\ [][s1_pc = "raised" => (puts' = puts /\ history' = history /\ s1_pc' = s1_pc)]_vars

\* The second city's fetch raised after the first city was written, with a
\* third city still to come.
C7_Witness ==
    /\ s1_pc = "raised"
    /\ city_idx = 2
    /\ Len(city_config) >= 3
    /\ Len(PutsOf(city_config[1])) = 1

NoFault == \A e \in Range(history) : ~(e.phase = "fetch" /\ e.n = -1)

RECURSIVE EventsInConfigOrder(_)
EventsInConfigOrder(k) ==
    IF k > Len(city_config) THEN <<>>
    ELSE EventsOf(city_config[k]) \o EventsInConfigOrder(k + 1)

\* C10: without an upstream fault the cities are processed in configuration
\* order through fetch, download, enrich, write; a city is written exactly once
\* if and only if its metadata is non-empty and its download returned a row; a
\* city with no downloaded row is neither enriched nor written; a city whose
\* rows are all dropped by the duplicate/null drop is still written, as a
\* header with no data line.
C10_Stage1Order ==
    NoFault =>
      /\ history = EventsInConfigOrder(1)
      /\ [k \in DOMAIN puts |-> puts[k].Key]
           = SelectSeq(city_config, LAMBDA c : PutsOf(c) # <<>>)
      /\ \A k \in 1 .. (city_idx - 1) :
            LET c == city_config[k]
                ev == EventsOf(c)
                ph == PhasesOf(c)
            IN /\ ph \in {<<"fetch">>, <<"fetch", "download", "rows">>,
                          <<"fetch", "download", "rows", "enrich", "write">>}
               /\ Len(PutsOf(c)) <= 1
               /\ Len(PutsOf(c)) = 1 <=> (ev[1].n > 0 /\ Len(ev) >= 3 /\ ev[3].n > 0)
               /\ ev[1].n > 0 <=> Len(ev) >= 3
               /\ (Len(ev) >= 3 /\ ev[3].n = 0) => Len(ev) = 3
               /\ Len(ev) = 5 =>
                     /\ Len(PutsOf(c)) = 1
                     /\ Len(PutsOf(c)[1].Body.lines) = ev[4].n
                     /\ PutsOf(c)[1].Body.header # <<>>

\* A faultless run is over in which one city had no downloaded row and another
\* city's rows were all dropped and its header-only artifact was put.
C10_Witness ==
    /\ s1_pc = "done"
    /\ NoFault
    /\ \E c \in Range(city_config) : Len(EventsOf(c)) = 3 /\ EventsOf(c)[3].n = 0
    /\ \E c \in Range(city_config) :
          /\ Len(EventsOf(c)) = 5
          /\ EventsOf(c)[3].n > 0
          /\ EventsOf(c)[4].n = 0
          /\ PutsOf(c) # <<>>
          /\ PutsOf(c)[1].Body.lines = <<>>

\* ======================================================================
\* Properties of enrichment (SpecEnrich)
\* ======================================================================
\* C8: enrichment applied to a dataset that is itself an output of enrichment,
\* with the same metadata, gives back the same columns and the same rows in
\* the same order.
C8_EnrichmentIdempotent == enr_passes >= 2 => enr_df = enr_prev

\* Enrichment was applied twice to a dataset from which the first application
\* added columns and dropped some but not all rows.
C8_Witness ==
    /\ enr_passes = 2
    /\ enr_df.rows # <<>>
    /\ Len(enr_df.rows) < Len(enr_input.rows)
    /\ Len(enr_df.columns) > Len(enr_input.columns)
    /\ enr_df.columns # enr_input.columns

\* ======================================================================
\* Properties of create_daily_forecast_prompts_v4 (SpecPrompts)
\* ======================================================================
\* The calendar days on which the location has a non-null measurement.
ResampledDays ==
    {DateOf(gen_df[k].datetime) :
        k \in {j \in DOMAIN gen_df : gen_df[j].location_name = gen_location /\ gen_df[j].value # <<>>}}

Returned(type) == gen_pc = "returned" /\ prompt_type = type

\* C3: fine-tuning generation over exactly history_length_days + forecast_days
\* resampled days returns exactly one record, and over one day fewer returns
\* none, without raising.
C3_FineTuningThreshold ==
    Returned("fine-tuning") =>
        /\ Cardinality(ResampledDays) = history_length_days + forecast_days
              => (Len(output_list) = 1 /\ ~gen_raised)
        /\ Cardinality(ResampledDays) = history_length_days + forecast_days - 1
              => (output_list = <<>> /\ ~gen_raised)

\* Twelve resampled days with a history of 10 and a forecast of 2 gave one record.
C3_Witness ==
    /\ Returned("fine-tuning")
    /\ history_length_days = 10
    /\ forecast_days = 2
    /\ Cardinality(ResampledDays) = 12
    /\ Len(output_list) = 1

\* The latest resampled day.
Anchor == CHOOSE d \in ResampledDays : \A e \in ResampledDays : e <= d

\* C4: zero-shot generation for a location with at least history_length_days
\* resampled days returns exactly one record, whose table has one row per
\* resampled day of [anchor - (history_length_days - 1), anchor], in date
\* order, and no other row.
C4_ZeroShotWindow ==
    (Returned("zero-shot") /\ Cardinality(ResampledDays) >= history_length_days) =>
        /\ ~gen_raised
        /\ Len(output_list) = 1
        /\ LET table == output_list[1].Prompt.table
               window == {d \in ResampledDays : Anchor - (history_length_days - 1) <= d /\ d <= Anchor}
           IN /\ {table[k].date : k \in DOMAIN table} = window
              /\ Len(table) = Cardinality(window)
              /\ \A j, k \in DOMAIN table : j < k => table[j].date < table[k].date

\* A zero-shot call returned for a location with enough resampled days, one of
\* them before the window and a day of the window without data.
C4_Witness ==
    /\ Returned("zero-shot")
    /\ Cardinality(ResampledDays) >= history_length_days
    /\ Len(output_list) = 1
    /\ Len(output_list[1].Prompt.table) < history_length_days
    /\ \E d \in ResampledDays : d < Anchor - (history_length_days - 1)

\* C9: zero-shot generation for a location without any resampled day does not
\* raise and returns exactly one record, whose table has no row.
C9_ZeroShotEmptyWindow ==
    (Returned("zero-shot") /\ ResampledDays = {}) =>
        /\ ~gen_raised
        /\ Len(output_list) = 1
        /\ output_list[1].Prompt.table = <<>>
        /\ output_list[1].Completion = <<>>

\* A zero-shot call returned for a dataset that has rows, none of them a
\* measurement of the location.
C9_Witness ==
    /\ Returned("zero-shot")
    /\ ResampledDays = {}
    /\ gen_df # <<>>
    /\ Len(output_list) = 1

\* The resampled day with exactly n resampled days before it (n = 0, 1, ...).
NthDay(n) ==
    CHOOSE d \in ResampledDays : Cardinality({e \in ResampledDays : e < d}) = n

RECURSIVE SumOver(_, _)
SumOver(df, idx) ==
    IF idx = {} THEN 0
    ELSE LET k == CHOOSE j \in idx : TRUE IN df[k].value[1] + SumOver(df, idx \ {k})

\* The row a table has for resampled day d: the day and the mean of the
\* location's measurements of that day, to two decimals.
RenderedDay(d) ==
    LET idx == {k \in DOMAIN gen_df : /\ gen_df[k].location_name = gen_location
                                       /\ gen_df[k].value # <<>>
                                       /\ DateOf(gen_df[k].datetime) = d}
        sum == SumOver(gen_df, idx)
        count == Cardinality(idx)
    IN [date |-> d, value |-> (200 * sum + count) \div (2 * count)]

\* C12: fine-tuning generation over N >= history_length_days + forecast_days
\* resampled days returns N - history_length_days - forecast_days + 1 records,
\* in ascending order of window start s = 0, 1, ...; record s has the resampled
\* rows s .. s + history_length_days - 1 as its history and the forecast_days
\* rows that follow as its completion; max_prompts_per_city does not cap the
\* count.
C12_FineTuningWindows ==
    LET N == Cardinality(ResampledDays)
        h == history_length_days
        f == forecast_days
    IN (Returned("fine-tuning") /\ N >= h + f) =>
          /\ ~gen_raised
          /\ Len(output_list) = N - h - f + 1
          /\ \A s \in 0 .. (N - h - f) :
                /\ output_list[s + 1].Prompt.table = [j \in 1 .. h |-> RenderedDay(NthDay(s + j - 1))]
                /\ output_list[s + 1].Completion = [j \in 1 .. f |-> RenderedDay(NthDay(s + h + j - 1))]

\* A fine-tuning call returned more records than max_prompts_per_city, over
\* resampled days that are not all consecutive.
C12_Witness ==
    /\ Returned("fine-tuning")
    /\ history_length_days = 1
    /\ forecast_days = 1
    /\ Len(output_list) > max_prompts_per_city
    /\ Len(output_list) >= 2
    /\ \E d \in ResampledDays : d < NthDay(Cardinality(ResampledDays) - 1) /\ d + 1 \notin ResampledDays

\* ======================================================================
\* Properties of the Stage 2 driver (SpecStage2)
\* ======================================================================
\* The records of an accumulator that are about a city.
RecordsOf(accumulator, city) == SelectSeq(accumulator, LAMBDA r : r.Prompt.location_name = city)

\* The cities whose iteration is over.
Iterated == IF s2_pc = "start" THEN <<>> ELSE SubSeq(locations_list, 1, s2_i - 1)

Readable(city) == target_objects[city].status = "ok"

\* C5: a city whose stored CSV is absent or unreadable is logged and skipped:
\* it adds no record to either accumulator, the other cities are processed in
\* configuration order, and both JSON arrays are written once, after the last
\* city.
C5_UnreadableArtifactSkipped ==
    config.state = "ok" =>
      /\ s2_pc # "raised"
      /\ s2_loads = Iterated
      /\ \A k \in DOMAIN Iterated :
            LET city == Iterated[k]
            IN IF Readable(city)
               THEN Len(RecordsOf(all_zero_shot_prompts, city)) = 1
               ELSE /\ RecordsOf(all_zero_shot_prompts, city) = <<>>
                    /\ RecordsOf(all_ft_prompts, city) = <<>>
                    /\ [msg |-> "Error loading file from S3", city |-> city] \in Range(s2_stdout)
      /\ [k \in DOMAIN all_zero_shot_prompts |-> all_zero_shot_prompts[k].Prompt.location_name]
           = SelectSeq(Iterated, Readable)
      /\ s2_pc \in {"start", "loop"} => json_files = <<>>
      /\ s2_pc = "save_ft" => Len(json_files) = 1
      /\ s2_pc = "done" =>
            /\ Iterated = config.cities
            /\ json_files = <<[filename |-> "data/air_quality_forecast_zeroshot_prompts.json",
                               data |-> all_zero_shot_prompts],
                              [filename |-> "data/air_quality_forecast_ft_prompts.json",
                               data |-> all_ft_prompts]>>

\* The run is over; the second of three cities had no readable artifact, and
\* the first and the third each gave records.
C5_Witness ==
    /\ s2_pc = "done"
    /\ Len(config.cities) = 3
    /\ ~Readable(config.cities[2])
    /\ RecordsOf(all_ft_prompts, config.cities[1]) # <<>>
    /\ RecordsOf(all_zero_shot_prompts, config.cities[3]) # <<>>
    /\ Len(json_files) = 2

\* C6: when the configuration resource is missing or is not JSON, the error is
\* printed and the run aborts: no city is processed and neither JSON file is
\* written.
C6_BadConfigAborts ==
    (config.state # "ok" /\ s2_pc # "start") =>
        /\ s2_pc = "raised"
        /\ Len(s2_stdout) = 1
        /\ s2_stdout[1].msg \in {"Error: The configuration file 'cities_config.json' was not found.",
                                 "Error: The configuration file contains invalid JSON."}
        /\ s2_loads = <<>>
        /\ all_zero_shot_prompts = <<>>
        /\ all_ft_prompts = <<>>
        /\ json_files = <<>>

\* main has ended on a configuration file that is not JSON.
C6_Witness ==
    /\ config.state = "malformed"
    /\ s2_pc = "raised"
    /\ json_files = <<>>

====
